---------------------------- MODULE Spec2Model ----------------------------
(***************************************************************************)
(* A model of pam.c of pngquant: the histogram builder                     *)
(* (pam_computeacolorhist and its helpers) and the nearest-colour matcher  *)
(* (best_color_index).                                                     *)
(*                                                                         *)
(* Numbers.  Pixels keep their 8-bit channels and their 32-bit packing.    *)
(* Floating-point quantities are kept on grids of dyadic rationals on      *)
(* which every float operation of the code is exact:                       *)
(*   - weights and boosts in units of 1/2  (1.0 is 2, 0.5 is 1);           *)
(*   - colour components in units of 1/64 (alpha 1.0 is 64);               *)
(*   - colour distances in units of 1/4096 (1/1024 is 4).                  *)
(***************************************************************************)
EXTENDS Integers, Sequences, FiniteSets

VARIABLES
    \* ---- pam_computeacolorhist: arguments
    apixels,        \* apixels[row][col], rows of <<r, g, b, a>> (1-based)
    cols, rows,
    maxacolors,
    ignorebits,
    importance_map, \* NULL or a sequence of rows*cols importances (units 1/2)
    \* ---- pam_computeacolorhist / pam_computeacolorhash: locals
    pc,             \* "idle", "call", "scan", "flatten", "free", "done"
    row, col,       \* loop counters of the pixel scan (0-based, as in C)
    imp,            \* how far importance_map has been advanced (++)
    colors,         \* the running distinct-colour counter
    buckets,        \* acht->buckets: hash -> chain, head first; absent = NULL
    mempool,        \* the arena: [state, nfree]
    uaf,            \* a bucket or node was touched after the arena's release
    stop,           \* <<row, col>> of the pixel at which the scan aborted
    hist,           \* the value returned: NullHist or [null, achv, size]
    nhist,          \* histogram objects allocated by the call
    \* ---- best_color_index: arguments, locals and result
    px, map, min_opaque_val,
    bpc,            \* "idle", "call", "loop", "done"
    i, ind, dist,
    reads,          \* indices of acolormap the call has read
    swaps,          \* history: [i, old, new, a] of each replacement of the best
    ret,            \* the value returned
    \* ---- posterization at two precisions (one image, ignorebits a <= b)
    ignorebits2, histA, histB, ppc

histvars  == <<apixels, cols, rows, maxacolors, ignorebits, importance_map,
               pc, row, col, imp, colors, buckets, mempool, uaf, stop,
               hist, nhist>>
matchvars == <<px, map, min_opaque_val, bpc, i, ind, dist, reads, swaps, ret>>
postvars  == <<ignorebits2, histA, histB, ppc>>
vars      == <<histvars, matchvars, postvars>>

\* a null pointer: no importance map, no value returned yet
NULL == <<>>

\* the hist* a call returns: NullHist is the return of 0
NullHist == [null |-> TRUE]

-----------------------------------------------------------------------------
(* Bounds of the model *)

MaxPixels    == 4   \* images have cols * rows <= MaxPixels pixels
MaxColorsCap == 3   \* maxacolors ranges over 0 .. MaxColorsCap
MaxPalette   == 3   \* palettes have 0 .. MaxPalette entries

-----------------------------------------------------------------------------
(* Integer helpers.  An unsigned int is kept as its four bytes, least      *)
(* significant first: for union rgb_as_long on a little-endian target these *)
(* are the bytes r, g, b, a of the pixel, so .rgb and .l are one tuple.     *)

RECURSIVE Pow2(_)
Pow2(n) == IF n = 0 THEN 1 ELSE 2 * Pow2(n - 1)

ShiftR(x, n) == x \div Pow2(n)
ShiftL(x, n) == x * Pow2(n)

RECURSIVE BitAnd(_, _)
BitAnd(x, y) ==
    IF x = 0 \/ y = 0 THEN 0
    ELSE (x % 2) * (y % 2) + 2 * BitAnd(x \div 2, y \div 2)

HASH_SIZE == 30029

\* faulty variant: a mask that keeps the low ignorebits bits instead
channel_mask_low(ib) == Pow2(ib) - 1
\* const unsigned int channel_mask = 255>>ignorebits<<ignorebits;
channel_mask(ib) == ShiftL(ShiftR(255, ib), ib)

\* channel_mask << 24 | channel_mask << 16 | channel_mask << 8 | channel_mask
posterize_mask(ib) ==
    LET m == channel_mask(ib) IN <<m, m, m, m>>

\* px.l &= posterize_mask
PosterizedL(p, ib) ==
    LET mask == posterize_mask(ib)
    IN  <<BitAnd(p[1], mask[1]), BitAnd(p[2], mask[2]),
          BitAnd(p[3], mask[3]), BitAnd(p[4], mask[4])>>

\* hash = px.l % HASH_SIZE, the remainder of
\* l[1] + 256 * l[2] + 65536 * l[3] + 16777216 * l[4] taken byte by byte
HashOf(l) ==
    ((((((l[4] % HASH_SIZE) * 256 + l[3]) % HASH_SIZE) * 256 + l[2]) % HASH_SIZE)
        * 256 + l[1]) % HASH_SIZE

-----------------------------------------------------------------------------
(* The colour hash table (pam_computeacolorhash) *)

\* buckets[hash], NULL (the empty chain) where nothing was inserted
Chain(bk, h) == IF h \in DOMAIN bk THEN bk[h] ELSE <<>>

\* for (achl = buckets[hash]; achl != NULL; achl = achl->next)
\*     if (achl->color.l == px.l) break;
\* the position of the node the loop stops at, 0 for achl == NULL
RECURSIVE FindFrom(_, _, _)
FindFrom(chain, l, k) ==
    IF k > Len(chain) THEN 0
    ELSE IF chain[k].color = l THEN k
    ELSE FindFrom(chain, l, k + 1)

FindNode(chain, l) == FindFrom(chain, l, 1)

\* float boost=1.0;  (units of 1/2)
BoostDefault == 2
\* the 0.5 of  boost = 0.5+*importance_map++;  (units of 1/2)
BoostBias == 1

\* the boost of the pixel the scan is at; k is the number of importances
\* already consumed through importance_map++
BoostAt(imap, k) == IF imap = NULL THEN BoostDefault ELSE BoostBias + imap[k + 1]

\* faulty variant: colors++ > maxacolors
ExceedsCapPost(cnt, max) == cnt - 1 > max
\* if (++colors > maxacolors): cnt is colors after the increment
ExceedsCap(cnt, max) == cnt > max

\* faulty variant: achl->perceptual_weight = boost;
SetWeight(bk, h, k, boost) ==
    [bk EXCEPT ![h][k].perceptual_weight = boost]
\* achl->perceptual_weight += boost;
AddWeight(bk, h, k, boost) ==
    [bk EXCEPT ![h][k].perceptual_weight = @ + boost]

\* achl->color = px; achl->perceptual_weight = boost;
\* achl->next = buckets[hash]; buckets[hash] = achl;
InsertHead(bk, h, l, boost) ==
    LET node == [color |-> l, perceptual_weight |-> boost]
    IN  [x \in DOMAIN bk \cup {h} |->
            IF x = h THEN <<node>> \o Chain(bk, h) ELSE bk[x]]

\* One iteration of the inner loop (lines 103-129) on pixel p:
\* the branch taken and the table and counter it leaves.
ScanStep(bk, cnt, p, boost, ib, max) ==
    LET l == PosterizedL(p, ib)
        h == HashOf(l)
        k == FindNode(Chain(bk, h), l)
    IN  IF k # 0
        THEN [kind |-> "hit", buckets |-> AddWeight(bk, h, k, boost), colors |-> cnt]
        ELSE IF ExceedsCap(cnt + 1, max)
        THEN [kind |-> "overflow", buckets |-> bk, colors |-> cnt + 1]
        ELSE [kind |-> "new", buckets |-> InsertHead(bk, h, l, boost),
              colors |-> cnt + 1]

-----------------------------------------------------------------------------
(* Flattening (pam_acolorhashtoacolorhist) *)

\* to_f(gamma, px): the conversion to a perceptual colour.  It lives in
\* pam.h; modelled from its contract as an alpha-premultiplied colour
\* (so it is not injective: every fully transparent pixel converts alike).
to_f(p) == [a |-> p[4], r |-> p[1] * p[4], g |-> p[2] * p[4], b |-> p[3] * p[4]]

\* one hist_item; src is a history field: the packed colour it was made from
HistItem(node) ==
    [acolor |-> to_f(node.color),
     perceptual_weight |-> node.perceptual_weight,
     adjusted_weight |-> node.perceptual_weight,
     src |-> node.color]

ChainItems(chain) == [k \in 1 .. Len(chain) |-> HistItem(chain[k])]

SetMin(S) == CHOOSE x \in S : \A y \in S : x <= y

\* for (i = 0; i < HASH_SIZE; ++i) for (achl = buckets[i]; ...) achv[j++] = ...
RECURSIVE FlattenBuckets(_, _)
FlattenBuckets(bk, todo) ==
    IF todo = {} THEN <<>>
    ELSE LET h == SetMin(todo)
         IN  ChainItems(bk[h]) \o FlattenBuckets(bk, todo \ {h})

\* hist = malloc(sizeof(hist)): hist is the local pointer here, so the block
\* has the size of a pointer, while the struct holds the pointer achv and,
\* after it, the int size.  achv lies inside the block; size does not.
HistBlockHoldsSize == FALSE

\* what hist->size can hold when the caller reads it: a store beyond the
\* end of the block is undefined, the value kept or any other
SizeReadBack(hist_size) ==
    IF HistBlockHoldsSize THEN {hist_size} ELSE 0 .. MaxPixels + 1

\* the array hist->achv as filled by the loop
pam_acolorhashtoacolorhist(bk) == FlattenBuckets(bk, DOMAIN bk)

-----------------------------------------------------------------------------
(* The arena (mempool.h) as pam.c uses it *)

\* pam_allocacolorhash: a fresh arena holding the table and its buckets
\* (every bucket NULL, as the scan of line 111 takes it to be)
pam_allocacolorhash == [state |-> "live", nfree |-> 0]

\* faulty variant: the arena is never handed to mempool_free
pam_leakacolorhash(m) == m
\* pam_freeacolorhash: mempool_free(acht->mempool)
pam_freeacolorhash(m) == [state |-> "freed", nfree |-> m.nfree + 1]

-----------------------------------------------------------------------------
(* Inputs of the histogram builder *)

\* three pixels: transparent black; an opaque pixel whose packed value is
\* 0 modulo HASH_SIZE (the same bucket as black); and that pixel with the
\* lowest bit of r cleared.
Pixels == {<<0, 0, 0, 0>>, <<1, 45, 0, 255>>, <<0, 45, 0, 255>>}

Shapes == {s \in (1 .. MaxPixels) \X (1 .. MaxPixels) : s[1] * s[2] <= MaxPixels}

IgnoreBits == {0, 1, 8}

\* importance maps: importances 0, 1/2, 1 that vary with the position
Ramp(s, n) == [k \in 1 .. n |-> (s + k) % 3]
ImportanceMaps(n) == {NULL} \cup {Ramp(s, n) : s \in {0, 1}}

HistIdle ==
    /\ apixels = <<>> /\ cols = 0 /\ rows = 0 /\ maxacolors = 0
    /\ ignorebits = 0 /\ importance_map = NULL
    /\ pc = "idle" /\ row = 0 /\ col = 0 /\ imp = 0 /\ colors = 0
    /\ buckets = <<>> /\ mempool = [state |-> "none", nfree |-> 0]
    /\ uaf = FALSE /\ stop = <<>> /\ hist = NullHist /\ nhist = 0

HistInit ==
    /\ \E s \in Shapes :
          /\ cols = s[1] /\ rows = s[2]
          /\ apixels \in [1 .. s[2] -> [1 .. s[1] -> Pixels]]
          /\ importance_map \in ImportanceMaps(s[1] * s[2])
    /\ maxacolors \in 0 .. MaxColorsCap
    /\ ignorebits \in IgnoreBits
    /\ pc = "call" /\ row = 0 /\ col = 0 /\ imp = 0 /\ colors = 0
    /\ buckets = <<>> /\ mempool = [state |-> "none", nfree |-> 0]
    /\ uaf = FALSE /\ stop = <<>> /\ hist = NullHist /\ nhist = 0

-----------------------------------------------------------------------------
(* pam_computeacolorhist, step by step *)

\* lines 78-79 and 92-96: the call, pam_allocacolorhash, colors = 0
Call ==
    /\ pc = "call"
    /\ mempool' = pam_allocacolorhash
    /\ buckets' = <<>>
    /\ colors' = 0 /\ row' = 0 /\ col' = 0 /\ imp' = 0
    /\ pc' = "scan"
    /\ UNCHANGED <<apixels, cols, rows, maxacolors, ignorebits, importance_map,
                   uaf, stop, hist, nhist>>
    /\ UNCHANGED <<matchvars, postvars>>

Step == ScanStep(buckets, colors, apixels[row + 1][col + 1],
                 BoostAt(importance_map, imp), ignorebits, maxacolors)

\* ++col, and ++row with col = 0 at the end of a row
Advance ==
    /\ col' = IF col + 1 < cols THEN col + 1 ELSE 0
    /\ row' = IF col + 1 < cols THEN row ELSE row + 1
    /\ imp' = IF importance_map = NULL THEN imp ELSE imp + 1

\* lines 103-117: the pixel's colour is in its chain
ScanHit ==
    /\ pc = "scan" /\ row < rows
    /\ Step.kind = "hit"
    /\ buckets' = Step.buckets
    /\ uaf' = (uaf \/ mempool.state # "live")
    /\ Advance
    /\ UNCHANGED <<apixels, cols, rows, maxacolors, ignorebits, importance_map,
                   pc, colors, mempool, stop, hist, nhist>>
    /\ UNCHANGED <<matchvars, postvars>>

\* lines 103-115, 119, 123-128: a new colour within the cap
ScanNew ==
    /\ pc = "scan" /\ row < rows
    /\ Step.kind = "new"
    /\ buckets' = Step.buckets
    /\ colors' = Step.colors
    /\ uaf' = (uaf \/ mempool.state # "live")
    /\ Advance
    /\ UNCHANGED <<apixels, cols, rows, maxacolors, ignorebits, importance_map,
                   pc, mempool, stop, hist, nhist>>
    /\ UNCHANGED <<matchvars, postvars>>

\* lines 119-121 and 80: a new colour beyond the cap; the arena is released
\* and NULL goes back through pam_computeacolorhist
ScanOverflow ==
    /\ pc = "scan" /\ row < rows
    /\ Step.kind = "overflow"
    /\ colors' = Step.colors
    /\ uaf' = (uaf \/ mempool.state # "live")
    /\ mempool' = pam_freeacolorhash(mempool)
    /\ stop' = <<row, col>>
    /\ hist' = NullHist
    /\ pc' = "done"
    /\ UNCHANGED <<apixels, cols, rows, maxacolors, ignorebits, importance_map,
                   row, col, imp, buckets, nhist>>
    /\ UNCHANGED <<matchvars, postvars>>

\* lines 133-134 and 79-80: the scan ends, *acolorsP = colors, acht != NULL
ScanDone ==
    /\ pc = "scan" /\ row >= rows
    /\ pc' = "flatten"
    /\ UNCHANGED <<apixels, cols, rows, maxacolors, ignorebits, importance_map,
                   row, col, imp, colors, buckets, mempool, uaf, stop, hist, nhist>>
    /\ UNCHANGED <<matchvars, postvars>>

\* line 82: pam_acolorhashtoacolorhist(acht, hist_size, gamma)
Flatten ==
    /\ pc = "flatten"
    /\ \E sz \in SizeReadBack(colors) :
          hist' = [null |-> FALSE, achv |-> pam_acolorhashtoacolorhist(buckets),
                   size |-> sz]
    /\ nhist' = nhist + 1
    /\ uaf' = (uaf \/ mempool.state # "live")
    /\ pc' = "free"
    /\ UNCHANGED <<apixels, cols, rows, maxacolors, ignorebits, importance_map,
                   row, col, imp, colors, buckets, mempool, stop>>
    /\ UNCHANGED <<matchvars, postvars>>

\* lines 83-84: pam_freeacolorhash(acht); return achv;
Release ==
    /\ pc = "free"
    /\ mempool' = pam_freeacolorhash(mempool)
    /\ pc' = "done"
    /\ UNCHANGED <<apixels, cols, rows, maxacolors, ignorebits, importance_map,
                   row, col, imp, colors, buckets, uaf, stop, hist, nhist>>
    /\ UNCHANGED <<matchvars, postvars>>

HistNext == Call \/ ScanHit \/ ScanNew \/ ScanOverflow \/ ScanDone \/ Flatten \/ Release

-----------------------------------------------------------------------------
(* The nearest-colour matcher (best_color_index) *)

\* 1.f/1024.f in units of 1/4096
Eps == 4
\* the 1 of  acolormap[i].acolor.a < 1  in units of 1/64
Opaque == 64

\* colordifference(px, py) lives in pam.h; modelled from its contract
\* (symmetric, non-negative, zero only for equal colours) as the squared
\* Euclidean distance over the four components.
colordifference(p, q) ==
    (p.a - q.a) * (p.a - q.a) + (p.r - q.r) * (p.r - q.r)
    + (p.g - q.g) * (p.g - q.g) + (p.b - q.b) * (p.b - q.b)

PaletteColors == [a : {32, 64}, r : 0 .. 3, g : {0}, b : {0}]
QueryColors   == [a : {48, 64}, r : {0, 1}, g : {0}, b : {0}]
MinOpaqueVals == {40, 56}

\* what a read of acolormap[k] beyond the palette's end may deliver
\* (undefined: two arbitrary colours stand for whatever lies there)
GarbageColors == {[a |-> 32, r |-> 0, g |-> 0, b |-> 0],
                  [a |-> 64, r |-> 1, g |-> 0, b |-> 0]}

\* acolormap[k] (k counts from 0, as in C)
ReadEntry(m, k) == IF k < Len(m) THEN {m[k + 1]} ELSE GarbageColors

\* const int iebug = px.a > min_opaque_val;
iebug == px.a > min_opaque_val

\* faulty variant: i <= numcolors
LoopCondInclusive(k, numcolors) == k <= numcolors
\* for(int i = 1; i < numcolors; i++)
LoopCond(k, numcolors) == k < numcolors

\* faulty variant: the plain nearest-colour test, without lines 39-41
ReplacesNoBias(newdist, d, bug, c) == newdist < d
\* faulty variant: newdist <= dist at line 36
ReplacesOnTie(newdist, d, bug, c) ==
    /\ newdist <= d
    /\ ~ (bug /\ c.a < Opaque /\ newdist + Eps > d)
\* lines 36-45: whether candidate c at distance newdist becomes the best
Replaces(newdist, d, bug, c) ==
    /\ newdist < d
    /\ ~ (bug /\ c.a < Opaque /\ newdist + Eps > d)

MatchIdle ==
    /\ px = [a |-> 0, r |-> 0, g |-> 0, b |-> 0] /\ map = <<>>
    /\ min_opaque_val = 0 /\ bpc = "idle" /\ i = 0 /\ ind = 0 /\ dist = 0
    /\ reads = {} /\ swaps = <<>> /\ ret = NULL

MatchInit ==
    /\ px \in QueryColors
    /\ \E n \in 0 .. MaxPalette : map \in [1 .. n -> PaletteColors]
    /\ min_opaque_val \in MinOpaqueVals
    /\ bpc = "call" /\ i = 0 /\ ind = 0 /\ dist = 0
    /\ reads = {} /\ swaps = <<>> /\ ret = NULL

\* lines 27-31: ind = 0; dist = colordifference(px, acolormap[0].acolor)
BciCall ==
    /\ bpc = "call"
    /\ ind' = 0
    /\ \E c \in ReadEntry(map, 0) : dist' = colordifference(px, c)
    /\ reads' = {0}
    /\ i' = 1
    /\ bpc' = "loop"
    /\ UNCHANGED <<px, map, min_opaque_val, swaps, ret>>
    /\ UNCHANGED <<histvars, postvars>>

\* lines 33-45, one iteration in which the candidate becomes the best
BciReplace ==
    /\ bpc = "loop" /\ LoopCond(i, Len(map))
    /\ \E c \in ReadEntry(map, i) :
          /\ Replaces(colordifference(px, c), dist, iebug, c)
          /\ dist' = colordifference(px, c)
          /\ swaps' = Append(swaps, [i |-> i, old |-> dist,
                                     new |-> colordifference(px, c), a |-> c.a])
    /\ ind' = i
    /\ reads' = reads \cup {i}
    /\ i' = i + 1
    /\ UNCHANGED <<px, map, min_opaque_val, bpc, ret>>
    /\ UNCHANGED <<histvars, postvars>>

\* lines 33-45, one iteration in which the best stays
BciKeep ==
    /\ bpc = "loop" /\ LoopCond(i, Len(map))
    /\ \E c \in ReadEntry(map, i) :
          ~ Replaces(colordifference(px, c), dist, iebug, c)
    /\ reads' = reads \cup {i}
    /\ i' = i + 1
    /\ UNCHANGED <<px, map, min_opaque_val, bpc, ind, dist, swaps, ret>>
    /\ UNCHANGED <<histvars, postvars>>

\* lines 48-49: *dist_out = dist; return ind;
BciReturn ==
    /\ bpc = "loop" /\ ~ LoopCond(i, Len(map))
    /\ ret' = [index |-> ind, dist_out |-> dist]
    /\ bpc' = "done"
    /\ UNCHANGED <<px, map, min_opaque_val, i, ind, dist, reads, swaps>>
    /\ UNCHANGED <<histvars, postvars>>

MatchNext == BciCall \/ BciReplace \/ BciKeep \/ BciReturn

-----------------------------------------------------------------------------
(* pam_computeacolorhist as a function of its arguments *)

\* pam_computeacolorhash from pixel number k on (row-major, from 0):
\* null, or the table and the count at the end of the scan
RECURSIVE HashFrom(_, _, _, _, _, _, _, _, _)
HashFrom(img, c, r, max, ib, imap, k, bk, cnt) ==
    IF k >= c * r THEN [null |-> FALSE, buckets |-> bk, colors |-> cnt]
    ELSE LET st == ScanStep(bk, cnt, img[(k \div c) + 1][(k % c) + 1],
                            BoostAt(imap, k), ib, max)
         IN  IF st.kind = "overflow" THEN [null |-> TRUE]
             ELSE HashFrom(img, c, r, max, ib, imap, k + 1, st.buckets, st.colors)

computeacolorhash(img, c, r, max, ib, imap) ==
    HashFrom(img, c, r, max, ib, imap, 0, <<>>, 0)

\* NullHist, or the array achv with the local hist_size
computeacolorhist(img, c, r, max, ib, imap) ==
    LET acht == computeacolorhash(img, c, r, max, ib, imap)
    IN  IF acht.null THEN NullHist
        ELSE [null |-> FALSE, achv |-> pam_acolorhashtoacolorhist(acht.buckets),
              hist_size |-> acht.colors]

PostIdle == ignorebits2 = 0 /\ histA = NullHist /\ histB = NullHist /\ ppc = "idle"

PostInit ==
    /\ \E s \in Shapes :
          /\ cols = s[1] /\ rows = s[2]
          /\ apixels \in [1 .. s[2] -> [1 .. s[1] -> Pixels]]
    /\ importance_map = NULL
    /\ maxacolors \in 0 .. MaxColorsCap
    /\ ignorebits \in 0 .. 8
    /\ ignorebits2 \in ignorebits .. 8
    /\ pc = "idle" /\ row = 0 /\ col = 0 /\ imp = 0 /\ colors = 0
    /\ buckets = <<>> /\ mempool = [state |-> "none", nfree |-> 0]
    /\ uaf = FALSE /\ stop = <<>> /\ hist = NullHist /\ nhist = 0
    /\ histA = NullHist /\ histB = NullHist /\ ppc = "call"

\* the same image through pam_computeacolorhist at both precisions
PostRun ==
    /\ ppc = "call"
    /\ histA' = computeacolorhist(apixels, cols, rows, maxacolors, ignorebits,
                                  importance_map)
    /\ histB' = computeacolorhist(apixels, cols, rows, maxacolors, ignorebits2,
                                  importance_map)
    /\ ppc' = "done"
    /\ UNCHANGED <<histvars, ignorebits2>>
    /\ UNCHANGED matchvars

PostNext == PostRun

-----------------------------------------------------------------------------
(* Specifications *)

InitHist == HistInit /\ MatchIdle /\ PostIdle
SpecHist == InitHist /\ [][HistNext]_vars

InitMatch == HistIdle /\ MatchInit /\ PostIdle
SpecMatch == InitMatch /\ [][MatchNext]_vars

InitPost == PostInit /\ MatchIdle
SpecPost == InitPost /\ [][PostNext]_vars

-----------------------------------------------------------------------------
(* What the properties are stated in: the image as the caller sees it *)

\* a pixel with the low ib bits of every channel cleared
Posterize(p, ib) == [k \in 1 .. 4 |-> (p[k] \div Pow2(ib)) * Pow2(ib)]

\* the pixel positions <<row, col>> of the image, and their row-major rank
Positions == (0 .. rows - 1) \X (0 .. cols - 1)
Rank(pos) == pos[1] * cols + pos[2]
PixelAt(pos) == apixels[pos[1] + 1][pos[2] + 1]

\* the distinct posterized colours among the first n pixels
DistinctUpTo(n, ib) == {Posterize(PixelAt(pos), ib) : pos \in {q \in Positions : Rank(q) < n}}
DistinctColors(ib) == DistinctUpTo(rows * cols, ib)

\* the boost of a pixel as the documentation states it
BoostOf(pos) ==
    IF importance_map = NULL THEN 2 ELSE 1 + importance_map[pos[1] * cols + pos[2] + 1]

RECURSIVE SumBoosts(_)
SumBoosts(S) ==
    IF S = {} THEN 0
    ELSE LET pos == CHOOSE q \in S : TRUE
         IN  BoostOf(pos) + SumBoosts(S \ {pos})

RECURSIVE SumWeights(_)
SumWeights(items) ==
    IF items = <<>> THEN 0
    ELSE items[1].perceptual_weight + SumWeights(Tail(items))

Returned == pc = "done" /\ ~ hist.null

-----------------------------------------------------------------------------
(* Properties of the histogram builder, under SpecHist *)

\* C1: when the image holds more distinct posterized colours than
\* maxacolors, the call returns NULL, no histogram object was allocated,
\* and the scan stopped at the pixel that brought distinct colour number
\* maxacolors + 1.
C1_OverflowReturnsNull ==
    (pc = "done" /\ Cardinality(DistinctColors(ignorebits)) > maxacolors) =>
        /\ hist = NullHist
        /\ nhist = 0
        /\ stop \in Positions
        /\ Cardinality(DistinctUpTo(Rank(stop), ignorebits)) = maxacolors
        /\ Cardinality(DistinctUpTo(Rank(stop) + 1, ignorebits)) = maxacolors + 1

C1_Witness ==
    /\ pc = "done" /\ Cardinality(DistinctColors(ignorebits)) > maxacolors
    /\ hist = NullHist /\ maxacolors = 2 /\ stop = <<1, 1>>

\* C2: when the image holds at most maxacolors distinct posterized colours,
\* the call returns a histogram whose size is the distinct count and whose
\* entries are one per distinct posterized colour, no two from equal colours.
C2_OneEntryPerColor ==
    (pc = "done" /\ Cardinality(DistinctColors(ignorebits)) <= maxacolors) =>
        /\ ~ hist.null
        /\ hist.size = Cardinality(DistinctColors(ignorebits))
        /\ Len(hist.achv) = Cardinality(DistinctColors(ignorebits))
        /\ {hist.achv[j].src : j \in 1 .. Len(hist.achv)} = DistinctColors(ignorebits)
        /\ \A j, k \in 1 .. Len(hist.achv) :
              j # k => hist.achv[j].src # hist.achv[k].src

\* The part of C2 that does not read hist->size: the array achv holds one
\* entry per distinct posterized colour.
C2_EntriesOnly ==
    (pc = "done" /\ Cardinality(DistinctColors(ignorebits)) <= maxacolors) =>
        /\ ~ hist.null
        /\ Len(hist.achv) = Cardinality(DistinctColors(ignorebits))
        /\ {hist.achv[j].src : j \in 1 .. Len(hist.achv)} = DistinctColors(ignorebits)

\* C3: in every histogram returned, each entry's perceptual_weight and
\* adjusted_weight are the sum of the boosts of the pixels whose posterized
\* colour is the entry's, the boost being 1.0 without an importance map and
\* 0.5 + importance_map[row * width + col] with one; the weights of all
\* entries add up to the boosts of all pixels.
C3_WeightIsSumOfBoosts ==
    Returned =>
        /\ \A j \in 1 .. Len(hist.achv) :
              LET mine == {pos \in Positions :
                              Posterize(PixelAt(pos), ignorebits) = hist.achv[j].src}
              IN  /\ hist.achv[j].perceptual_weight = SumBoosts(mine)
                  /\ hist.achv[j].adjusted_weight = SumBoosts(mine)
        /\ SumWeights(hist.achv) = SumBoosts(Positions)
        /\ importance_map = NULL => SumWeights(hist.achv) = 2 * cols * rows

C3_Witness ==
    /\ Returned /\ importance_map # NULL /\ cols = 2 /\ rows = 2
    /\ Len(hist.achv) = 2
    /\ \E j \in 1 .. 2 : hist.achv[j].perceptual_weight = 6

\* C9: the arena is released exactly once before the call returns, on the
\* overflow path and on the success path, it is live while the table is
\* scanned and flattened, and no bucket or node is touched after the release.
C9_ArenaReleasedOnce ==
    /\ ~ uaf
    /\ mempool.nfree <= 1
    /\ pc \in {"scan", "flatten", "free"} => mempool.state = "live"
    /\ pc = "free" => nhist = 1
    /\ pc = "done" => mempool.state = "freed" /\ mempool.nfree = 1

C9_Witness ==
    /\ Returned /\ Len(hist.achv) = 3
    /\ mempool.state = "freed" /\ mempool.nfree = 1

-----------------------------------------------------------------------------
(* Posterization at two precisions, under SpecPost *)

\* the number of distinct colours the scan counts when the cap cannot bite
Counted(ib) ==
    computeacolorhash(apixels, cols, rows, cols * rows, ib, NULL).colors

\* C4: with ignorebits a <= b on one image, the scan counts at most as many
\* distinct colours with b as with a; and when the call succeeds with a it
\* succeeds with b and returns a histogram that is no larger.
C4_PosterizationMonotone ==
    ppc = "done" =>
        /\ Counted(ignorebits2) <= Counted(ignorebits)
        /\ ~ histA.null =>
              /\ ~ histB.null
              /\ Len(histB.achv) <= Len(histA.achv)
              /\ histB.hist_size <= histA.hist_size

C4_Witness ==
    /\ ppc = "done" /\ ignorebits = 0 /\ ignorebits2 = 1
    /\ ~ histA.null /\ ~ histB.null
    /\ Len(histA.achv) = 3 /\ Len(histB.achv) = 2

-----------------------------------------------------------------------------
(* Properties of the matcher, under SpecMatch *)

Dist(k) == colordifference(px, map[k + 1])
MinDist == SetMin({Dist(k) : k \in 0 .. Len(map) - 1})

\* C5: for a non-empty palette the index returned is within the palette,
\* and it is 0 for a palette of one entry.
C5_IndexInRange ==
    (bpc = "done" /\ Len(map) >= 1) =>
        /\ ret.index \in 0 .. Len(map) - 1
        /\ Len(map) = 1 => ret.index = 0

C5_Witness ==
    /\ bpc = "done" /\ Len(map) = 3 /\ ret.index = 2

\* the palette of the opaque-bias scenario, for a query with alpha above
\* min_opaque_val
OpaqueBiasCase ==
    /\ Len(map) = 2 /\ map[1].a = 64 /\ map[2].a = 32
    /\ px.a > min_opaque_val

\* C6: in that scenario index 0 is returned when entry 1 is closer by less
\* than 1/1024, and index 1 when it is closer by more than 1/1024.
C6_OpaqueBias ==
    (bpc = "done" /\ OpaqueBiasCase) =>
        /\ (Dist(1) < Dist(0) /\ Dist(0) - Dist(1) < Eps) => ret.index = 0
        /\ Dist(0) - Dist(1) > Eps => ret.index = 1

C6_Witness ==
    /\ bpc = "done" /\ OpaqueBiasCase
    /\ Dist(1) < Dist(0) /\ Dist(0) - Dist(1) < Eps /\ ret.index = 0

\* C7: a call with a palette of no entries is rejected before the scan and
\* reads no palette entry.
C7_EmptyPaletteRejected ==
    Len(map) = 0 =>
        /\ reads = {}
        /\ bpc = "done" => ret.index \notin Nat

\* C8 as stated: a candidate replaces the best only if it is strictly closer
\* and the query is not opaque-biased, or the candidate is opaque, or its
\* improvement exceeds 1/1024.
C8_ReplacesOnlyIfExceeds ==
    \A n \in 1 .. Len(swaps) :
        /\ swaps[n].new < swaps[n].old
        /\ \/ px.a <= min_opaque_val
           \/ swaps[n].a >= Opaque
           \/ swaps[n].old - swaps[n].new > Eps

\* C8 amended: ... or its improvement is at least 1/1024 (newdist + 1/1024 is
\* not above the best distance); an improvement of exactly 1/1024 replaces.
C8_ReplacesOnlyIfAtLeast ==
    \A n \in 1 .. Len(swaps) :
        /\ swaps[n].i >= 1
        /\ swaps[n].new < swaps[n].old
        /\ \/ px.a <= min_opaque_val
           \/ swaps[n].a >= Opaque
           \/ swaps[n].old - swaps[n].new >= Eps

C8_Witness ==
    \E n \in 1 .. Len(swaps) :
        /\ px.a > min_opaque_val /\ swaps[n].a < Opaque
        /\ swaps[n].old - swaps[n].new = Eps

\* C10: for a non-empty palette the distance reported is that of the entry
\* returned and is below the least distance plus 1/1024; for a query that
\* is not opaque-biased the index is the lowest one at the least distance.
C10_ReportedDistance ==
    (bpc = "done" /\ Len(map) >= 1) =>
        /\ ret.index \in 0 .. Len(map) - 1
        /\ ret.dist_out = Dist(ret.index)
        /\ ret.dist_out < MinDist + Eps
        /\ px.a <= min_opaque_val =>
              ret.index = SetMin({k \in 0 .. Len(map) - 1 : Dist(k) = MinDist})

C10_Witness ==
    /\ bpc = "done" /\ Len(map) = 3
    /\ px.a > min_opaque_val
    /\ ret.dist_out > MinDist

=============================================================================
